---------------------------- MODULE Spec2Model ----------------------------
(***************************************************************************)
(* Model of ProctoringSession (app3.py): the registration handshake, the   *)
(* periodic face / phone model scheduler, the identity check, the          *)
(* attention score and the two debounce timers of process_frame.           *)
(*                                                                         *)
(* Time is counted in half seconds (the greatest unit in which every       *)
(* interval of the program is a whole number).  Scores are exact           *)
(* rationals <<numerator, denominator>>.                                   *)
(***************************************************************************)
EXTENDS Integers, Sequences, FiniteSets, TLC

VARIABLES
    ref_embedding,              \* self.ref_embedding
    last_face_check_time,       \* self.last_face_check_time
    last_faces,                 \* self.last_faces
    last_authorized,            \* self.last_authorized
    last_phone_check_time,      \* self.last_phone_check_time
    last_phone_present,         \* self.last_phone_present
    phone_presence_start_time,  \* self.phone_presence_start_time
    distracted_start_time,      \* self.distracted_start_time
    now,                        \* the reading of time.time()
    ret,                        \* the last call: what it was given, what the
                                \*   models did in it and what it returned
    since_registration,         \* history: half seconds since the registration,
                                \*   counted up to PHONE_CHECK_INTERVAL
    face_invoked_at,            \* history: time of the last face_app.get call
    phone_present_since,        \* history: since when the cached phone flag is True
    face_result_at,             \* history, kept by SpecCacheAge: time of the
                                \*   face_app.get call whose result is cached
    phone_result_at             \* history, kept by SpecCacheAge: time of the
                                \*   detect_phone call whose result is cached

vars == <<ref_embedding, last_face_check_time, last_faces, last_authorized,
          last_phone_check_time, last_phone_present, phone_presence_start_time,
          distracted_start_time, now, ret, since_registration, face_invoked_at,
          phone_present_since, face_result_at, phone_result_at>>

session_vars == <<ref_embedding, last_face_check_time, last_faces, last_authorized,
                  last_phone_check_time, last_phone_present,
                  phone_presence_start_time, distracted_start_time>>

-----------------------------------------------------------------------------
(* Bounds of the model *)

\* time.time() at the first call, in half seconds; the epoch clock is far
\* beyond every interval, so the initial timestamps 0.0 are always stale
StartTime == 10
\* how many half seconds the clock advances
Horizon == 10
\* the most faces the face model returns for one frame
MaxFaces == 2
\* the head scores given to the attention formula are the multiples of
\* 1 / HeadGrid in [0, 1]
HeadGrid == 20
\* the keypoint coordinates given to the head pose scorer are 0 .. MaxCoord
MaxCoord == 4

-----------------------------------------------------------------------------
(* Configuration constants, times in half seconds *)

AUTHORIZED_THRESHOLD == <<2, 5>>
FOCUS_ALERT_TIME == 6
PHONE_ALERT_SECONDS == 2
FOCUS_THRESHOLD == 60
FACE_CHECK_INTERVAL == 10
PHONE_CHECK_INTERVAL == 5
W_FACE == <<2, 5>>
W_HEAD == <<1, 2>>
W_PHONE == <<1, 10>>

\* Python's None for an optional timestamp (timestamps are never negative)
None == -1
\* Python's None for the optional reference embedding
NoEmbedding == <<>>

-----------------------------------------------------------------------------
(* Exact rational arithmetic for the float computations *)

Abs(x) == IF x < 0 THEN -x ELSE x

RECURSIVE Gcd(_, _)
Gcd(a, b) == IF b = 0 THEN a ELSE Gcd(b, a % b)

Rat(n, d) ==
    LET g == Gcd(Abs(n), Abs(d))
        sgn == IF d < 0 THEN -1 ELSE 1
    IN  IF n = 0 THEN <<0, 1>> ELSE <<sgn * (n \div g), sgn * (d \div g)>>

RInt(n) == <<n, 1>>
RAdd(a, b) == Rat(a[1] * b[2] + b[1] * a[2], a[2] * b[2])
RSub(a, b) == Rat(a[1] * b[2] - b[1] * a[2], a[2] * b[2])
RMul(a, b) == Rat(a[1] * b[1], a[2] * b[2])
RDiv(a, b) == Rat(a[1] * b[2], a[2] * b[1])
RLt(a, b) == a[1] * b[2] < b[1] * a[2]
RLe(a, b) == a[1] * b[2] <= b[1] * a[2]
RMax(a, b) == IF RLt(a, b) THEN b ELSE a
RMin(a, b) == IF RLt(b, a) THEN b ELSE a
RAbs(a) == <<Abs(a[1]), a[2]>>
\* int(x) of a float: truncation toward zero
RTrunc(a) == IF a[1] >= 0 THEN a[1] \div a[2] ELSE -((-a[1]) \div a[2])

-----------------------------------------------------------------------------
(* What the collaborators return: faces and frames *)

\* embeddings (never the zero vector); EmbBoundary is at cosine similarity
\* exactly 2/5 to EmbRef
EmbRef == <<1, 0, 0, 0>>
EmbBoundary == <<2, 4, 2, 1>>
EmbOther == <<0, 1, 0, 0>>
Embeddings == {EmbRef, EmbBoundary, EmbOther}

\* keypoints (left eye, right eye, nose) and bounding box of a detected face
KpsForward == << <<4, 10>>, <<12, 10>>, <<8, 12>> >>
KpsAway == << <<4, 10>>, <<12, 10>>, <<11, 14>> >>
BBox == <<0, 0, 16, 20>>

Face(e, k) == [embedding |-> e, kps |-> k, bbox |-> BBox]

\* the faces the face model is given to detect
Faces ==
    {Face(EmbRef, KpsAway), Face(EmbBoundary, KpsForward), Face(EmbOther, KpsForward)}

ExtraFace == [embedding |-> EmbOther, kps |-> KpsForward, bbox |-> BBox]

\* what face_app.get returns when it returns
FaceModelOutputs ==
    {<< >>} \cup {<<f>> : f \in Faces}
            \cup {[i \in 1..n |-> ExtraFace] : n \in 2..MaxFaces}

\* a frame is described by what the decoder and the two models do with it
UndecodableFrame ==
    [decodable |-> FALSE, face_raises |-> FALSE, faces |-> << >>,
     phone_raises |-> FALSE, phone |-> FALSE]

Frames ==
    {f \in [decodable : BOOLEAN, face_raises : BOOLEAN, faces : FaceModelOutputs,
            phone_raises : BOOLEAN, phone : BOOLEAN] :
        /\ (~f.decodable => f = UndecodableFrame)
        /\ (f.face_raises => f.faces = << >>)
        /\ (f.phone_raises => ~f.phone)}

-----------------------------------------------------------------------------
(* Identity verifier: cosine similarity and the threshold test *)

RECURSIVE DotFrom(_, _, _)
DotFrom(a, b, i) ==
    IF i > Len(a) THEN 0 ELSE a[i] * b[i] + DotFrom(a, b, i + 1)

\* np.dot(a, b)
Dot(a, b) == DotFrom(a, b, 1)

\* np.dot(a, b) / (norm(a) * norm(b)), kept exact as dot / sqrt(nn)
cosine_similarity(a, b) == [dot |-> Dot(a, b), nn |-> Dot(a, a) * Dot(b, b)]

\* sim <= r for a rational r > 0
SimLeq(sim, r) ==
    \/ sim.dot <= 0
    \/ sim.dot * sim.dot * r[2] * r[2] <= r[1] * r[1] * sim.nn

\* sim <= AUTHORIZED_THRESHOLD
is_unauthorized(sim) == SimLeq(sim, AUTHORIZED_THRESHOLD)

-----------------------------------------------------------------------------
(* Head pose scorer *)

EPS == <<1, 1000000>>
HORIZ_THRESHOLD == <<7, 20>>
VERT_THRESHOLD == <<1, 4>>
SEVERE_HORIZ == <<1, 2>>
SEVERE_VERT == <<2, 5>>
SEVERE_PENALTY == <<3, 10>>
FORWARD_BONUS == <<6, 5>>

\* lines 182-189: the nose's offsets from the eye centre, relative to the
\* eye distance and to the face height
nose_center_offset(face) ==
    LET left_eye == face.kps[1]
        right_eye == face.kps[2]
        nose == face.kps[3]
        eye_distance == RMax(RInt(right_eye[1] - left_eye[1]), EPS)
    IN  RDiv(RSub(RInt(nose[1]), RDiv(RInt(left_eye[1] + right_eye[1]), RInt(2))),
             eye_distance)

vert_offset(face) ==
    LET left_eye == face.kps[1]
        right_eye == face.kps[2]
        nose == face.kps[3]
        face_height == RMax(RInt(face.bbox[4] - face.bbox[2]), EPS)
        eye_y_avg == RDiv(RInt(left_eye[2] + right_eye[2]), RInt(2))
    IN  RDiv(RSub(RInt(nose[2]), eye_y_avg), face_height)

\* the test that applies the severe penalty
severe_pose(face) ==
    \/ RLt(SEVERE_HORIZ, RAbs(nose_center_offset(face)))
    \/ RLt(SEVERE_VERT, RAbs(vert_offset(face)))

\* the test that applies the forward bonus
forward_pose(face) ==
    /\ RLt(RAbs(nose_center_offset(face)), RDiv(HORIZ_THRESHOLD, RInt(2)))
    /\ RLt(RAbs(vert_offset(face)), RDiv(VERT_THRESHOLD, RInt(2)))

compute_head_score_no_cap(face) ==
    IF Len(face.kps) < 3 THEN RInt(0)
    ELSE
    LET horiz_score ==
            RMax(RInt(0),
                 RSub(RInt(1), RDiv(RAbs(nose_center_offset(face)), HORIZ_THRESHOLD)))
        vert_score ==
            RMax(RInt(0), RSub(RInt(1), RDiv(RAbs(vert_offset(face)), VERT_THRESHOLD)))
        base == RDiv(RAdd(horiz_score, vert_score), RInt(2))
        penalized == IF severe_pose(face) THEN RMul(base, SEVERE_PENALTY) ELSE base
    IN  IF forward_pose(face) THEN RMul(penalized, FORWARD_BONUS) ELSE penalized

compute_head_score(face) ==
    IF Len(face.kps) < 3 THEN RInt(0)
    ELSE
    LET horiz_score ==
            RMax(RInt(0),
                 RSub(RInt(1), RDiv(RAbs(nose_center_offset(face)), HORIZ_THRESHOLD)))
        vert_score ==
            RMax(RInt(0), RSub(RInt(1), RDiv(RAbs(vert_offset(face)), VERT_THRESHOLD)))
        base == RDiv(RAdd(horiz_score, vert_score), RInt(2))
        penalized == IF severe_pose(face) THEN RMul(base, SEVERE_PENALTY) ELSE base
    IN  IF forward_pose(face)
        THEN RMin(RInt(1), RMul(penalized, FORWARD_BONUS))
        ELSE penalized

-----------------------------------------------------------------------------
(* Attention aggregator *)

HEAD_BONUS_THRESHOLD == <<4, 5>>
ATTENTION_BONUS == <<11, 10>>

\* face_present and authorized
face_ok(s) == Len(s.last_faces) = 1 /\ s.last_authorized

\* lines 142-152, from the cached face count, the authorization flag, the
\* head score and the cached phone flag
attention_formula_no_cap(person_count, authorized, head_score, phone_present) ==
    LET ok == person_count = 1 /\ authorized
        face_score == IF ok THEN RInt(1) ELSE RInt(0)
        phone_pen == IF phone_present THEN RInt(1) ELSE RInt(0)
        base_score ==
            RDiv(RAdd(RAdd(RMul(W_FACE, face_score), RMul(W_HEAD, head_score)),
                      RMul(W_PHONE, RSub(RInt(1), phone_pen))),
                 RAdd(RAdd(W_FACE, W_HEAD), W_PHONE))
        scaled == RMul(base_score, RInt(100))
    IN  IF ~ok THEN RInt(0)
        ELSE IF RLt(HEAD_BONUS_THRESHOLD, head_score)
             THEN RMul(scaled, ATTENTION_BONUS)
             ELSE scaled

attention_formula(person_count, authorized, head_score, phone_present) ==
    LET ok == person_count = 1 /\ authorized
        face_score == IF ok THEN RInt(1) ELSE RInt(0)
        phone_pen == IF phone_present THEN RInt(1) ELSE RInt(0)
        base_score ==
            RDiv(RAdd(RAdd(RMul(W_FACE, face_score), RMul(W_HEAD, head_score)),
                      RMul(W_PHONE, RSub(RInt(1), phone_pen))),
                 RAdd(RAdd(W_FACE, W_HEAD), W_PHONE))
        scaled == RMul(base_score, RInt(100))
    IN  IF ~ok THEN RInt(0)
        ELSE IF RLt(HEAD_BONUS_THRESHOLD, head_score)
             THEN RMin(RInt(100), RMul(scaled, ATTENTION_BONUS))
             ELSE scaled

\* lines 141-152 on the session's cache
attention_score(s) ==
    attention_formula(Len(s.last_faces), s.last_authorized,
                      IF face_ok(s) THEN compute_head_score(s.last_faces[1])
                      ELSE RInt(0),
                      s.last_phone_present)

-----------------------------------------------------------------------------
(* The session object as a record, and events *)

Self ==
    [ref_embedding |-> ref_embedding,
     last_face_check_time |-> last_face_check_time,
     last_faces |-> last_faces,
     last_authorized |-> last_authorized,
     last_phone_check_time |-> last_phone_check_time,
     last_phone_present |-> last_phone_present,
     phone_presence_start_time |-> phone_presence_start_time,
     distracted_start_time |-> distracted_start_time]

SetSelf(s) ==
    /\ ref_embedding' = s.ref_embedding
    /\ last_face_check_time' = s.last_face_check_time
    /\ last_faces' = s.last_faces
    /\ last_authorized' = s.last_authorized
    /\ last_phone_check_time' = s.last_phone_check_time
    /\ last_phone_present' = s.last_phone_present
    /\ phone_presence_start_time' = s.phone_presence_start_time
    /\ distracted_start_time' = s.distracted_start_time

\* the state __init__ leaves
NewSession ==
    [ref_embedding |-> NoEmbedding,
     last_face_check_time |-> 0,
     last_faces |-> << >>,
     last_authorized |-> FALSE,
     last_phone_check_time |-> 0,
     last_phone_present |-> FALSE,
     phone_presence_start_time |-> None,
     distracted_start_time |-> None]

MsgAlreadyRegistered == "User is already registered."
MsgInvalidImage == "Invalid image data."
MsgNoFace == "No face found in registration frame."
MsgMultipleFaces == "Multiple faces found. Only one person allowed."
MsgRegistered == "User registered successfully."
MsgInternal == "An internal error occurred."
MsgInvalidFrame == "Invalid frame data."

ErrorEvent(msg) == [event |-> "ERROR", message |-> msg]
FaceNotFoundEvent(t) == [event |-> "FACE_NOT_FOUND", timestamp |-> t]
MultipleFacesEvent(n, t) == [event |-> "MULTIPLE_FACES", count |-> n, timestamp |-> t]
UnauthorizedEvent(sim, t) ==
    [event |-> "UNAUTHORIZED_PERSON", similarity |-> sim, timestamp |-> t]
PhoneDetectedEvent(t) == [event |-> "PHONE_DETECTED", timestamp |-> t]
LookingAwayEvent(score, t) == [event |-> "LOOKING_AWAY", score |-> score, timestamp |-> t]

\* mutation: the decoder's failure is not noticed
decode_frame_never_fails(frame) == TRUE

\* cv2.imdecode yields an image, or None (also when it raises)
decode_frame(frame) == frame.decodable

-----------------------------------------------------------------------------
(* register_user_from_frame *)

\* mutation: the guard against a second registration is missing
is_registered_never(s) == FALSE

is_registered(s) == s.ref_embedding # NoEmbedding

\* mutation: the phone timer is not started
store_registration_no_phone_timer(s, faces, t) ==
    [s EXCEPT !.ref_embedding = faces[1].embedding,
              !.last_faces = faces,
              !.last_authorized = TRUE,
              !.last_face_check_time = t]

\* the assignments of a successful registration
store_registration(s, faces, t) ==
    [s EXCEPT !.ref_embedding = faces[1].embedding,
              !.last_faces = faces,
              !.last_authorized = TRUE,
              !.last_face_check_time = t,
              !.last_phone_check_time = t]

\* mutation: the face count test is off by one
too_many_faces_off_by_one(faces) == Len(faces) > 2

too_many_faces(faces) == Len(faces) > 1

\* mutation: the first of several faces is stored before the count is rejected
register_result_keeps_first_face(s, frame, t) ==
    IF is_registered(s)
    THEN [s |-> s, success |-> FALSE, message |-> MsgAlreadyRegistered,
          face_invoked |-> FALSE, raised |-> ""]
    ELSE IF ~decode_frame(frame)
    THEN [s |-> s, success |-> FALSE, message |-> MsgInvalidImage,
          face_invoked |-> FALSE, raised |-> ""]
    ELSE IF frame.face_raises
    THEN [s |-> s, success |-> FALSE, message |-> MsgInternal,
          face_invoked |-> TRUE, raised |-> "face_model"]
    ELSE IF frame.faces = << >>
    THEN [s |-> s, success |-> FALSE, message |-> MsgNoFace,
          face_invoked |-> TRUE, raised |-> ""]
    ELSE IF too_many_faces(frame.faces)
    THEN [s |-> store_registration(s, frame.faces, t), success |-> FALSE,
          message |-> MsgMultipleFaces, face_invoked |-> TRUE, raised |-> ""]
    ELSE [s |-> store_registration(s, frame.faces, t), success |-> TRUE,
          message |-> MsgRegistered, face_invoked |-> TRUE, raised |-> ""]

register_result(s, frame, t) ==
    IF is_registered(s)
    THEN [s |-> s, success |-> FALSE, message |-> MsgAlreadyRegistered,
          face_invoked |-> FALSE, raised |-> ""]
    ELSE IF ~decode_frame(frame)
    THEN [s |-> s, success |-> FALSE, message |-> MsgInvalidImage,
          face_invoked |-> FALSE, raised |-> ""]
    ELSE IF frame.face_raises
    THEN [s |-> s, success |-> FALSE, message |-> MsgInternal,
          face_invoked |-> TRUE, raised |-> "face_model"]
    ELSE IF frame.faces = << >>
    THEN [s |-> s, success |-> FALSE, message |-> MsgNoFace,
          face_invoked |-> TRUE, raised |-> ""]
    ELSE IF too_many_faces(frame.faces)
    THEN [s |-> s, success |-> FALSE, message |-> MsgMultipleFaces,
          face_invoked |-> TRUE, raised |-> ""]
    ELSE [s |-> store_registration(s, frame.faces, t), success |-> TRUE,
          message |-> MsgRegistered, face_invoked |-> TRUE, raised |-> ""]

-----------------------------------------------------------------------------
(* process_frame, step by step; each step yields the session after it *)

\* mutation: the face gate uses the phone model's interval
face_due_wrong_interval(s, t) == t - s.last_face_check_time >= PHONE_CHECK_INTERVAL

face_due(s, t) == t - s.last_face_check_time >= FACE_CHECK_INTERVAL

\* mutation: a failed face check leaves the flag as it was
deauthorize_forgets(s) == s

\* self.last_authorized = False
deauthorize(s) == [s EXCEPT !.last_authorized = FALSE]

\* 1. face detection: the gate, the model call and the identity check
face_check(s, frame, t) ==
    IF ~face_due(s, t)
    THEN [s |-> s, events |-> << >>, raised |-> "", invoked |-> FALSE]
    ELSE
    LET s1 == [s EXCEPT !.last_face_check_time = t]
        faces == frame.faces
        s2 == [s1 EXCEPT !.last_faces = faces]
    IN  IF frame.face_raises
        THEN [s |-> s1, events |-> << >>, raised |-> "face_model", invoked |-> TRUE]
        ELSE IF faces = << >>
        THEN [s |-> deauthorize(s2),
              events |-> <<FaceNotFoundEvent(t)>>,
              raised |-> "", invoked |-> TRUE]
        ELSE IF Len(faces) > 1
        THEN [s |-> deauthorize(s2),
              events |-> <<MultipleFacesEvent(Len(faces), t)>>,
              raised |-> "", invoked |-> TRUE]
        ELSE IF s.ref_embedding = NoEmbedding
        \* np.dot(None, embedding) raises TypeError
        THEN [s |-> s2, events |-> << >>, raised |-> "similarity", invoked |-> TRUE]
        ELSE
        LET sim == cosine_similarity(s.ref_embedding, faces[1].embedding)
        IN  IF is_unauthorized(sim)
            THEN [s |-> deauthorize(s2),
                  events |-> <<UnauthorizedEvent(sim, t)>>,
                  raised |-> "", invoked |-> TRUE]
            ELSE [s |-> [s2 EXCEPT !.last_authorized = TRUE],
                  events |-> << >>, raised |-> "", invoked |-> TRUE]

\* mutation: the phone gate reads the face model's timestamp
phone_due_by_face_clock(s, t) == t - s.last_face_check_time >= PHONE_CHECK_INTERVAL

phone_due(s, t) == t - s.last_phone_check_time >= PHONE_CHECK_INTERVAL

\* 2. phone detection: the gate and the model call
phone_check(s, frame, t) ==
    IF ~phone_due(s, t)
    THEN [s |-> s, raised |-> "", invoked |-> FALSE]
    ELSE
    LET s1 == [s EXCEPT !.last_phone_check_time = t]
    IN  IF frame.phone_raises
        THEN [s |-> s1, raised |-> "phone_model", invoked |-> TRUE]
        ELSE [s |-> [s1 EXCEPT !.last_phone_present = frame.phone],
              raised |-> "", invoked |-> TRUE]

phone_alert_due(s, t) == t - s.phone_presence_start_time >= PHONE_ALERT_SECONDS

\* mutation: the start time survives the phone's absence
phone_debounce_no_reset(s, t) ==
    IF s.last_phone_present
    THEN IF s.phone_presence_start_time = None
         THEN [s |-> [s EXCEPT !.phone_presence_start_time = t], events |-> << >>]
         ELSE IF phone_alert_due(s, t)
         THEN [s |-> s, events |-> <<PhoneDetectedEvent(t)>>]
         ELSE [s |-> s, events |-> << >>]
    ELSE [s |-> s, events |-> << >>]

\* 3. the phone debounce timer
phone_debounce(s, t) ==
    IF s.last_phone_present
    THEN IF s.phone_presence_start_time = None
         THEN [s |-> [s EXCEPT !.phone_presence_start_time = t], events |-> << >>]
         ELSE IF phone_alert_due(s, t)
         THEN [s |-> s, events |-> <<PhoneDetectedEvent(t)>>]
         ELSE [s |-> s, events |-> << >>]
    ELSE [s |-> [s EXCEPT !.phone_presence_start_time = None], events |-> << >>]

\* mutation: the authorization is not tested
is_distracted_whoever(s, attention) == RLt(attention, RInt(FOCUS_THRESHOLD))

\* attention_score < FOCUS_THRESHOLD and authorized
is_distracted(s, attention) ==
    RLt(attention, RInt(FOCUS_THRESHOLD)) /\ s.last_authorized

\* mutation: the alert fires only at the moment the time is up
focus_alert_due_once(s, t) == t - s.distracted_start_time = FOCUS_ALERT_TIME

focus_alert_due(s, t) == t - s.distracted_start_time >= FOCUS_ALERT_TIME

\* 4. the distraction debounce timer
distraction_debounce(s, attention, t) ==
    IF is_distracted(s, attention)
    THEN IF s.distracted_start_time = None
         THEN [s |-> [s EXCEPT !.distracted_start_time = t], events |-> << >>]
         ELSE IF focus_alert_due(s, t)
         THEN [s |-> s, events |-> <<LookingAwayEvent(RTrunc(attention), t)>>]
         ELSE [s |-> s, events |-> << >>]
    ELSE [s |-> [s EXCEPT !.distracted_start_time = None], events |-> << >>]

NotComputed == RInt(None)

\* mutation: the handler appends ERROR to the events gathered before the failure
process_frame_result_appends_error(s, frame, t) ==
    IF ~decode_frame(frame)
    THEN [s |-> s, events |-> <<ErrorEvent(MsgInvalidFrame)>>, raised |-> "",
          face_invoked |-> FALSE, phone_invoked |-> FALSE, attention |-> NotComputed]
    ELSE
    LET f == face_check(s, frame, t)
    IN  IF f.raised # ""
        THEN [s |-> f.s, events |-> <<ErrorEvent(MsgInternal)>>, raised |-> f.raised,
              face_invoked |-> f.invoked, phone_invoked |-> FALSE,
              attention |-> NotComputed]
        ELSE
        LET p == phone_check(f.s, frame, t)
        IN  IF p.raised # ""
            THEN [s |-> p.s, events |-> f.events \o <<ErrorEvent(MsgInternal)>>,
                  raised |-> p.raised,
                  face_invoked |-> f.invoked, phone_invoked |-> p.invoked,
                  attention |-> NotComputed]
            ELSE
            LET pd == phone_debounce(p.s, t)
                attention == attention_score(pd.s)
                dd == distraction_debounce(pd.s, attention, t)
            IN  [s |-> dd.s, events |-> f.events \o pd.events \o dd.events,
                 raised |-> "", face_invoked |-> f.invoked,
                 phone_invoked |-> p.invoked, attention |-> attention]

\* the whole handler: the session it leaves and the list it returns
process_frame_result(s, frame, t) ==
    IF ~decode_frame(frame)
    THEN [s |-> s, events |-> <<ErrorEvent(MsgInvalidFrame)>>, raised |-> "",
          face_invoked |-> FALSE, phone_invoked |-> FALSE, attention |-> NotComputed]
    ELSE
    LET f == face_check(s, frame, t)
    IN  IF f.raised # ""
        THEN [s |-> f.s, events |-> <<ErrorEvent(MsgInternal)>>, raised |-> f.raised,
              face_invoked |-> f.invoked, phone_invoked |-> FALSE,
              attention |-> NotComputed]
        ELSE
        LET p == phone_check(f.s, frame, t)
        IN  IF p.raised # ""
            THEN [s |-> p.s, events |-> <<ErrorEvent(MsgInternal)>>,
                  raised |-> p.raised,
                  face_invoked |-> f.invoked, phone_invoked |-> p.invoked,
                  attention |-> NotComputed]
            ELSE
            LET pd == phone_debounce(p.s, t)
                attention == attention_score(pd.s)
                dd == distraction_debounce(pd.s, attention, t)
            IN  [s |-> dd.s, events |-> f.events \o pd.events \o dd.events,
                 raised |-> "", face_invoked |-> f.invoked,
                 phone_invoked |-> p.invoked, attention |-> attention]

-----------------------------------------------------------------------------
(* The state machine *)

NoCall ==
    [op |-> "none", decodable |-> FALSE, faces |-> << >>, success |-> FALSE, message |-> "",
     events |-> << >>, raised |-> "", face_invoked |-> FALSE,
     phone_invoked |-> FALSE, attention |-> NotComputed]

Init ==
    /\ ref_embedding = NewSession.ref_embedding
    /\ last_face_check_time = NewSession.last_face_check_time
    /\ last_faces = NewSession.last_faces
    /\ last_authorized = NewSession.last_authorized
    /\ last_phone_check_time = NewSession.last_phone_check_time
    /\ last_phone_present = NewSession.last_phone_present
    /\ phone_presence_start_time = NewSession.phone_presence_start_time
    /\ distracted_start_time = NewSession.distracted_start_time
    /\ now = StartTime
    /\ ret = NoCall
    /\ since_registration = None
    /\ face_invoked_at = None
    /\ phone_present_since = None
    /\ face_result_at = None
    /\ phone_result_at = None

\* what face_app.get returned to the call with result r, << >> when it was not
\* called or raised
model_returned(r, frame) ==
    IF r.face_invoked /\ r.raised # "face_model" THEN frame.faces ELSE << >>

\* time passes between two calls
Tick ==
    /\ now < StartTime + Horizon
    /\ now' = now + 1
    /\ ret' = NoCall
    /\ since_registration' =
          IF since_registration = None \/ since_registration >= PHONE_CHECK_INTERVAL
          THEN since_registration ELSE since_registration + 1
    /\ UNCHANGED <<session_vars, face_invoked_at, phone_present_since,
                   face_result_at, phone_result_at>>

register_user_from_frame(frame) ==
    \E r \in {register_result(Self, frame, now)} :
        /\ SetSelf(r.s)
        /\ ret' = [NoCall EXCEPT !.op = "register",
                                 !.decodable = frame.decodable,
                                 !.faces = model_returned(r, frame),
                                 !.success = r.success, !.message = r.message,
                                 !.raised = r.raised,
                                 !.face_invoked = r.face_invoked]
        /\ since_registration' = IF r.success THEN 0 ELSE since_registration
        /\ face_invoked_at' = IF r.face_invoked THEN now ELSE face_invoked_at
        /\ UNCHANGED <<now, phone_present_since>>

process_frame(frame) ==
    \E r \in {process_frame_result(Self, frame, now)} :
        /\ SetSelf(r.s)
        /\ ret' = [NoCall EXCEPT !.op = "process_frame",
                                 !.decodable = frame.decodable,
                                 !.faces = model_returned(r, frame),
                                 !.events = r.events, !.raised = r.raised,
                                 !.face_invoked = r.face_invoked,
                                 !.phone_invoked = r.phone_invoked,
                                 !.attention = r.attention]
        /\ face_invoked_at' = IF r.face_invoked THEN now ELSE face_invoked_at
        /\ phone_present_since' =
              IF ~r.s.last_phone_present THEN None
              ELSE IF last_phone_present THEN phone_present_since
              ELSE now
        /\ UNCHANGED <<now, since_registration>>

\* Frames that differ only in what a collaborator that the call does not reach
\* would have done with them are one input: the unread part is left at its default.
read_by_register(frame) ==
    /\ ~frame.phone_raises /\ ~frame.phone
    /\ (is_registered(Self) => frame = UndecodableFrame)

read_by_process_frame(frame) ==
    /\ (~face_due(Self, now) => ~frame.face_raises /\ frame.faces = << >>)
    /\ (\/ ~phone_due(Self, now)
        \/ frame.face_raises
        \/ (face_due(Self, now) /\ Len(frame.faces) = 1 /\ ~is_registered(Self))
           => ~frame.phone_raises /\ ~frame.phone)

Register ==
    /\ \E frame \in Frames : read_by_register(frame) /\ register_user_from_frame(frame)
    /\ UNCHANGED <<face_result_at, phone_result_at>>

ProcessFrame ==
    /\ \E frame \in Frames : read_by_process_frame(frame) /\ process_frame(frame)
    /\ UNCHANGED <<face_result_at, phone_result_at>>

Next == Tick \/ Register \/ ProcessFrame

Spec == Init /\ [][Next]_vars

-----------------------------------------------------------------------------
(* The same state machine, keeping track of the model invocation that       *)
(* produced each cached value                                               *)

\* line 70 caches the faces that face_app.get returned to the registration
RegisterTracked ==
    /\ \E frame \in Frames : read_by_register(frame) /\ register_user_from_frame(frame)
    /\ face_result_at' = IF ret'.success THEN now ELSE face_result_at
    /\ UNCHANGED phone_result_at

\* line 98 caches what face_app.get returned, line 127 what detect_phone returned
ProcessFrameTracked ==
    /\ \E frame \in Frames : read_by_process_frame(frame) /\ process_frame(frame)
    /\ face_result_at' =
          IF ret'.face_invoked /\ ret'.raised # "face_model" THEN now
          ELSE face_result_at
    /\ phone_result_at' =
          IF ret'.phone_invoked /\ ret'.raised # "phone_model" THEN now
          ELSE phone_result_at

NextCacheAge == Tick \/ RegisterTracked \/ ProcessFrameTracked

SpecCacheAge == Init /\ [][NextCacheAge]_vars

-----------------------------------------------------------------------------
(* The two scoring functions on their own: the inputs are drawn in the       *)
(* initial state and the one action applies the function to them.  The      *)
(* session is left as __init__ made it.                                     *)

FreshSession ==
    /\ ref_embedding = NewSession.ref_embedding
    /\ last_face_check_time = NewSession.last_face_check_time
    /\ last_faces = NewSession.last_faces
    /\ last_authorized = NewSession.last_authorized
    /\ last_phone_check_time = NewSession.last_phone_check_time
    /\ last_phone_present = NewSession.last_phone_present
    /\ phone_presence_start_time = NewSession.phone_presence_start_time
    /\ distracted_start_time = NewSession.distracted_start_time
    /\ now = StartTime
    /\ since_registration = None
    /\ face_invoked_at = None
    /\ phone_present_since = None
    /\ face_result_at = None
    /\ phone_result_at = None

\* what step 3 of process_frame reads: len(self.last_faces), authorized, the
\* head score and phone_present
AttentionInputs ==
    [person_count : 0..MaxFaces, authorized : BOOLEAN,
     head_score : {Rat(k, HeadGrid) : k \in 0..HeadGrid}, phone_present : BOOLEAN]

InitAttention ==
    /\ FreshSession
    /\ ret \in {[op |-> "attention_input", input |-> i, attention |-> NotComputed] :
                   i \in AttentionInputs}

ComputeAttention ==
    /\ ret.op = "attention_input"
    /\ ret' = [ret EXCEPT !.op = "attention",
                          !.attention =
                              attention_formula(ret.input.person_count,
                                                ret.input.authorized,
                                                ret.input.head_score,
                                                ret.input.phone_present)]
    /\ UNCHANGED <<session_vars, now, since_registration, face_invoked_at,
                   phone_present_since, face_result_at, phone_result_at>>

NextAttention == ComputeAttention

SpecAttention == InitAttention /\ [][NextAttention]_vars

\* the faces given to _compute_head_score: no keypoints, two keypoints, or
\* the three keypoints anywhere on the grid, in a bounding box that is empty
\* or twice as high as the grid
Coords == 0..MaxCoord

KeypointLists ==
    {<< >>, << <<0, 0>>, <<MaxCoord, 0>> >>}
    \cup {<< <<lx, ly>>, <<rx, ry>>, <<nx, ny>> >> :
             lx \in Coords, ly \in {1, 3}, rx \in Coords, ry \in {1, 3},
             nx \in Coords, ny \in Coords}

HeadScoreInputs ==
    [embedding : {EmbRef}, kps : KeypointLists,
     bbox : {<<0, 0, 2 * MaxCoord, h>> : h \in {0, 2 * MaxCoord}}]

InitHeadScore ==
    /\ FreshSession
    /\ ret \in {[op |-> "head_score_input", face |-> f, head_score |-> NotComputed,
                 penalty |-> FALSE, bonus |-> FALSE] : f \in HeadScoreInputs}

ComputeHeadScore ==
    /\ ret.op = "head_score_input"
    /\ ret' = [ret EXCEPT !.op = "head_score",
                          !.head_score = compute_head_score(ret.face),
                          !.penalty = Len(ret.face.kps) >= 3 /\ severe_pose(ret.face),
                          !.bonus = Len(ret.face.kps) >= 3 /\ forward_pose(ret.face)]
    /\ UNCHANGED <<session_vars, now, since_registration, face_invoked_at,
                   phone_present_since, face_result_at, phone_result_at>>

NextHeadScore == ComputeHeadScore

SpecHeadScore == InitHeadScore /\ [][NextHeadScore]_vars

-----------------------------------------------------------------------------
(* Properties *)

Kinds(events) == {events[i].event : i \in DOMAIN events}

RegisterCall == ret'.op = "register"
ProcessFrameCall == ret'.op = "process_frame"

\* C1: the reference embedding is written at most once: a register call on a
\* session that already holds one returns (False, "User is already registered.")
\* and leaves it as it is, and no process_frame call changes or clears it.
C1_ReferenceWrittenOnce ==
    [][/\ (ref_embedding # NoEmbedding => ref_embedding' = ref_embedding)
       /\ (RegisterCall /\ ref_embedding # NoEmbedding =>
              /\ ret'.success = FALSE
              /\ ret'.message = "User is already registered.")
       /\ (ProcessFrameCall => ref_embedding' = ref_embedding)]_vars

\* a register call was made on a registered session, after frames were processed
C1_Witness ==
    /\ ret.op = "register"
    /\ ret.message = MsgAlreadyRegistered
    /\ ref_embedding # NoEmbedding
    /\ last_face_check_time > StartTime

RegistrationFailureMessages ==
    {MsgAlreadyRegistered, MsgInvalidImage, MsgNoFace, MsgMultipleFaces}

\* C2: register_user_from_frame always returns a (success, message) pair, and
\* returns success = False when the session is already registered, when the frame
\* cannot be decoded, when the face model finds no face and when it finds more
\* than one; the four cases give four different messages.
C2_RegistrationFailures ==
    [][RegisterCall =>
        /\ ret'.success \in BOOLEAN
        /\ (ref_embedding # NoEmbedding =>
               ~ret'.success /\ ret'.message = MsgAlreadyRegistered)
        /\ (ref_embedding = NoEmbedding /\ ~ret'.decodable =>
               ~ret'.success /\ ret'.message = MsgInvalidImage)
        /\ (ret'.face_invoked /\ ret'.raised = "" /\ Len(ret'.faces) = 0 =>
               ~ret'.success /\ ret'.message = MsgNoFace)
        /\ (ret'.face_invoked /\ ret'.raised = "" /\ Len(ret'.faces) > 1 =>
               ~ret'.success /\ ret'.message = MsgMultipleFaces)
        /\ Cardinality(RegistrationFailureMessages) = 4]_vars

\* a registration was refused because the frame shows several faces
C2_Witness ==
    /\ ret.op = "register"
    /\ ret.face_invoked
    /\ Len(ret.faces) > 1
    /\ ~ret.success

\* C3: a register call on an unregistered session whose frame shows exactly one
\* face succeeds, stores that face's embedding as the reference, caches that
\* detection as authorized and sets both check timestamps to the time of the
\* call; so every process_frame call made less than PHONE_CHECK_INTERVAL after
\* the registration, the first one included, invokes neither model.
C3_RegistrationSeedsCache ==
    [][/\ (/\ RegisterCall
           /\ ref_embedding = NoEmbedding
           /\ ret'.face_invoked /\ ret'.raised = "" /\ Len(ret'.faces) = 1
           => /\ ret'.success
              /\ ref_embedding' = ret'.faces[1].embedding
              /\ last_faces' = ret'.faces
              /\ last_authorized' = TRUE
              /\ last_face_check_time' = now
              /\ last_phone_check_time' = now)
       /\ (/\ ProcessFrameCall
           /\ since_registration # None
           /\ since_registration < PHONE_CHECK_INTERVAL
           => ~ret'.face_invoked /\ ~ret'.phone_invoked)]_vars

\* a decodable frame was processed less than PHONE_CHECK_INTERVAL after the
\* registration, later than the registration itself
C3_Witness ==
    /\ ret.op = "process_frame"
    /\ ret.decodable
    /\ since_registration # None
    /\ since_registration > 0
    /\ since_registration < PHONE_CHECK_INTERVAL

HasEvent(events, e) == \E i \in DOMAIN events : events[i] = e

\* C4: on every process_frame call whose face refresh yields exactly one face,
\* at similarity s to the reference embedding, last_authorized becomes True iff
\* s > AUTHORIZED_THRESHOLD; when s <= AUTHORIZED_THRESHOLD it becomes False and
\* the call returns an UNAUTHORIZED_PERSON event carrying s.
C4_AuthorizationDecision ==
    /\ ret.op = "process_frame"
    /\ ret.face_invoked
    /\ ret.raised \notin {"face_model", "similarity"}
    /\ Len(ret.faces) = 1
    => LET s == cosine_similarity(ref_embedding, ret.faces[1].embedding)
       IN  /\ last_authorized <=> ~SimLeq(s, AUTHORIZED_THRESHOLD)
           /\ SimLeq(s, AUTHORIZED_THRESHOLD) =>
                 /\ ~last_authorized
                 /\ HasEvent(ret.events, UnauthorizedEvent(s, now))

\* C5: on every process_frame call that invokes the face model and gets a face
\* count other than one, the returned events contain FACE_NOT_FOUND (count zero)
\* or MULTIPLE_FACES with the count returned (count above one), and
\* last_authorized is False after the call.
C5_FaceCountEvents ==
    /\ ret.op = "process_frame"
    /\ ret.face_invoked
    /\ ret.raised # "face_model"
    /\ Len(ret.faces) # 1
    => /\ Len(ret.faces) = 0 => HasEvent(ret.events, FaceNotFoundEvent(now))
       /\ Len(ret.faces) > 1 =>
             HasEvent(ret.events, MultipleFacesEvent(Len(ret.faces), now))
       /\ ~last_authorized

FaceEventKinds == {"FACE_NOT_FOUND", "MULTIPLE_FACES", "UNAUTHORIZED_PERSON"}

\* what a process_frame step does when it works from the cached face result
CachedFaceReused ==
    /\ ~ret'.face_invoked
    /\ UNCHANGED <<last_faces, last_authorized, last_face_check_time>>
    /\ Kinds(ret'.events) \cap FaceEventKinds = {}
    /\ (ret'.decodable /\ ret'.raised = "" =>
          LET cached == [Self EXCEPT !.last_phone_present = last_phone_present']
              score == attention_score(cached)
          IN  /\ ret'.attention = score
              /\ "LOOKING_AWAY" \in Kinds(ret'.events) =>
                    /\ is_distracted(cached, score)
                    /\ HasEvent(ret'.events, LookingAwayEvent(RTrunc(score), now)))

\* C6 as stated: if less than FACE_CHECK_INTERVAL has elapsed since the last
\* face-model invocation, by register or by an earlier process_frame, then
\* process_frame does not invoke the face model, leaves last_faces,
\* last_authorized and last_face_check_time unchanged, emits no face event and
\* computes attention and alerts from the cached values.
C6_SinceLastInvocation ==
    [][/\ ProcessFrameCall
       /\ face_invoked_at # None
       /\ now - face_invoked_at < FACE_CHECK_INTERVAL
       => CachedFaceReused]_vars

\* C6 as amended: the same, counted from last_face_check_time, which a
\* successful registration and every face refresh of process_frame set; a
\* registration that fails after invoking the face model does not set it.
C6_SinceLastFaceCheckTime ==
    [][/\ ProcessFrameCall
       /\ now - last_face_check_time < FACE_CHECK_INTERVAL
       => CachedFaceReused]_vars

\* a frame was scored from a cached authorized face some time after the check
C6_Witness ==
    /\ ret.op = "process_frame"
    /\ ret.decodable
    /\ ret.raised = ""
    /\ ~ret.face_invoked
    /\ Len(last_faces) = 1
    /\ last_authorized
    /\ now > last_face_check_time
    /\ now - last_face_check_time < FACE_CHECK_INTERVAL

\* C7: PHONE_DETECTED is returned only if the cached phone flag has been True
\* without interruption since a recorded start time at least PHONE_ALERT_SECONDS
\* before the frame; a phone cached present for less than that gives no
\* PHONE_DETECTED; and a frame on which the phone is cached absent leaves
\* phone_presence_start_time None, so the next alert needs a whole new window.
C7_PhoneHysteresis ==
    ret.op = "process_frame" =>
       /\ ("PHONE_DETECTED" \in Kinds(ret.events) =>
             /\ last_phone_present
             /\ phone_presence_start_time # None
             /\ phone_presence_start_time >= phone_present_since
             /\ now - phone_presence_start_time >= PHONE_ALERT_SECONDS)
       /\ (last_phone_present /\ now - phone_present_since < PHONE_ALERT_SECONDS =>
             "PHONE_DETECTED" \notin Kinds(ret.events))
       /\ (~last_phone_present => phone_presence_start_time = None)

\* PHONE_DETECTED was returned for a phone that appeared after the first frame
C7_Witness ==
    /\ ret.op = "process_frame"
    /\ "PHONE_DETECTED" \in Kinds(ret.events)
    /\ phone_present_since > StartTime

\* C8: once attention has stayed below FOCUS_THRESHOLD with the person
\* authorized for FOCUS_ALERT_TIME since the timer was armed, process_frame
\* returns LOOKING_AWAY with the truncated score; and any frame on which the
\* person is unauthorized or attention is not below FOCUS_THRESHOLD leaves
\* distracted_start_time None.
C8_DistractionHysteresis ==
    ret.op = "process_frame" =>
       /\ (/\ ret.decodable /\ ret.raised = ""
           /\ RLt(ret.attention, RInt(FOCUS_THRESHOLD))
           /\ last_authorized
           /\ distracted_start_time # None
           /\ now - distracted_start_time >= FOCUS_ALERT_TIME
           => HasEvent(ret.events, LookingAwayEvent(RTrunc(ret.attention), now)))
       /\ (\/ ~last_authorized
           \/ /\ ret.decodable /\ ret.raised = ""
              /\ ~RLt(ret.attention, RInt(FOCUS_THRESHOLD))
           => distracted_start_time = None)

\* C9: a process_frame call whose frame does not decode returns exactly one
\* event, an ERROR, and changes no field of the session.
C9_DecodeFailure ==
    [][ProcessFrameCall /\ ~ret'.decodable =>
          /\ Len(ret'.events) = 1
          /\ ret'.events[1].event = "ERROR"
          /\ UNCHANGED session_vars]_vars

\* an undecodable frame reached a registered session with both timers armed
C9_Witness ==
    /\ ret.op = "process_frame"
    /\ ~ret.decodable
    /\ ref_embedding # NoEmbedding
    /\ phone_presence_start_time # None
    /\ distracted_start_time # None

\* C10: a process_frame call in which a model, or any other step, raises
\* returns exactly one event, an ERROR, and changes no field of the session.
C10_ExceptionLeavesState ==
    [][ProcessFrameCall /\ ret'.raised # "" =>
          /\ Len(ret'.events) = 1
          /\ ret'.events[1].event = "ERROR"
          /\ UNCHANGED session_vars]_vars

\* C11: the attention score lies in [0, 100] for every cached face count,
\* authorization flag, head score in [0, 1] and cached phone flag; it is 0
\* whenever there is not exactly one authorized face; and with one authorized
\* face, head score 1 and no phone it is exactly 100 (the 1.1 bonus is capped).
C11_AttentionRange ==
    ret.op = "attention" =>
        /\ RLe(RInt(0), ret.attention) /\ RLe(ret.attention, RInt(100))
        /\ (~(ret.input.person_count = 1 /\ ret.input.authorized)
               => ret.attention = RInt(0))
        /\ ((/\ ret.input.person_count = 1 /\ ret.input.authorized
             /\ ret.input.head_score = RInt(1) /\ ~ret.input.phone_present)
                => ret.attention = RInt(100))

\* the capped case: the uncapped product would be 110
C11_Witness ==
    /\ ret.op = "attention"
    /\ ret.input.person_count = 1 /\ ret.input.authorized
    /\ ret.input.head_score = RInt(1) /\ ~ret.input.phone_present
    /\ ret.attention = RInt(100)

\* the nose is exactly centred between the eyes and on the eye line
NoseCentred(face) ==
    /\ Len(face.kps) >= 3
    /\ 2 * face.kps[3][1] = face.kps[1][1] + face.kps[2][1]
    /\ 2 * face.kps[3][2] = face.kps[1][2] + face.kps[2][2]

\* C16: _compute_head_score returns a value in [0, 1] for every face, 0 when
\* fewer than three keypoints are available; the 0.3 severe penalty and the
\* 1.2 forward bonus are never both applied; and a nose exactly centred
\* between the eyes and on the eye line scores 1.
C16_HeadScoreRange ==
    ret.op = "head_score" =>
        /\ RLe(RInt(0), ret.head_score) /\ RLe(ret.head_score, RInt(1))
        /\ (Len(ret.face.kps) < 3 => ret.head_score = RInt(0))
        /\ ~(ret.penalty /\ ret.bonus)
        /\ (NoseCentred(ret.face) => ret.head_score = RInt(1))

\* a centred nose between eyes that are not level, scored with the bonus
C16_Witness ==
    /\ ret.op = "head_score"
    /\ NoseCentred(ret.face)
    /\ ret.face.kps[1][2] # ret.face.kps[2][2]
    /\ ret.bonus
    /\ ret.head_score = RInt(1)

\* C12: the alerts are level-triggered.  Once the phone timer has been armed
\* for at least PHONE_ALERT_SECONDS, every process_frame call that does not
\* fail returns PHONE_DETECTED for as long as the phone stays cached-present;
\* once the distraction timer has been armed for at least FOCUS_ALERT_TIME,
\* every such call returns LOOKING_AWAY for as long as attention stays below
\* FOCUS_THRESHOLD and the person stays authorized.
C12_LevelTriggered ==
    [][ProcessFrameCall /\ ret'.decodable /\ ret'.raised = "" =>
        /\ ((/\ phone_presence_start_time # None
             /\ now - phone_presence_start_time >= PHONE_ALERT_SECONDS
             /\ last_phone_present')
               => HasEvent(ret'.events, PhoneDetectedEvent(now)))
        /\ ((/\ distracted_start_time # None
             /\ now - distracted_start_time >= FOCUS_ALERT_TIME
             /\ RLt(ret'.attention, RInt(FOCUS_THRESHOLD))
             /\ last_authorized')
               => HasEvent(ret'.events, LookingAwayEvent(RTrunc(ret'.attention), now)))
      ]_vars

\* both alerts are returned again by a frame later than the one that first
\* returned them
C12_Witness ==
    /\ ret.op = "process_frame"
    /\ HasEvent(ret.events, PhoneDetectedEvent(now))
    /\ "LOOKING_AWAY" \in Kinds(ret.events)
    /\ now - phone_presence_start_time > PHONE_ALERT_SECONDS
    /\ now - distracted_start_time > FOCUS_ALERT_TIME

\* C13: on every process_frame call (that reaches its decisions) the cached
\* face result was produced by a face-model invocation made less than
\* FACE_CHECK_INTERVAL before or during the call, and the cached phone flag by
\* a phone-model invocation made less than PHONE_CHECK_INTERVAL before or
\* during the call.
C13_StalenessBound ==
    ret.op = "process_frame" /\ ret.decodable /\ ret.raised = "" =>
        /\ face_result_at # None
        /\ now - face_result_at < FACE_CHECK_INTERVAL
        /\ phone_result_at # None
        /\ now - phone_result_at < PHONE_CHECK_INTERVAL

\* C14: after every process_frame call, whatever it returns,
\* phone_presence_start_time is set only if last_phone_present is True,
\* distracted_start_time is set only if last_authorized is True, and a start
\* time that is set is not later than the time of the frame.
C14_TimerInvariants ==
    ret.op = "process_frame" =>
        /\ (phone_presence_start_time # None =>
               last_phone_present /\ phone_presence_start_time <= now)
        /\ (distracted_start_time # None =>
               last_authorized /\ distracted_start_time <= now)

\* what holds of the two gates on every decodable frame: the face model is
\* invoked iff its interval has elapsed, each invoked model sets its own
\* timestamp and no other, and a refresh of one model alone leaves the other
\* model's cache and timestamp unchanged
GatesKeepApart ==
    /\ (ret'.face_invoked <=> now - last_face_check_time >= FACE_CHECK_INTERVAL)
    /\ last_face_check_time' = IF ret'.face_invoked THEN now ELSE last_face_check_time
    /\ last_phone_check_time' =
          IF ret'.phone_invoked THEN now ELSE last_phone_check_time
    /\ (ret'.phone_invoked /\ ~ret'.face_invoked =>
          UNCHANGED <<last_faces, last_authorized, last_face_check_time>>)
    /\ (ret'.face_invoked /\ ~ret'.phone_invoked =>
          UNCHANGED <<last_phone_present, last_phone_check_time>>)

\* C15 as stated: on a decodable frame the phone model is invoked iff
\* now - last_phone_check_time >= PHONE_CHECK_INTERVAL and the face model iff
\* now - last_face_check_time >= FACE_CHECK_INTERVAL, each setting only its own
\* timestamp; a phone-only refresh leaves last_faces, last_authorized and
\* last_face_check_time unchanged and a face-only refresh leaves
\* last_phone_present and last_phone_check_time unchanged.
C15_GatesIndependent ==
    [][ProcessFrameCall /\ ret'.decodable =>
        /\ (ret'.phone_invoked <=>
               now - last_phone_check_time >= PHONE_CHECK_INTERVAL)
        /\ GatesKeepApart]_vars

\* C15 as amended: the same, except that the phone model is invoked iff its
\* interval has elapsed and the face step of the frame did not raise; an
\* exception in the face step ends the frame before the phone gate is read.
C15_PhoneGateAfterFaceStep ==
    [][ProcessFrameCall /\ ret'.decodable =>
        /\ (ret'.phone_invoked <=>
               /\ now - last_phone_check_time >= PHONE_CHECK_INTERVAL
               /\ ret'.raised \in {"", "phone_model"})
        /\ GatesKeepApart]_vars

\* a frame refreshed the phone flag alone, between two face checks
C15_Witness ==
    /\ ret.op = "process_frame"
    /\ ret.phone_invoked /\ ~ret.face_invoked
    /\ ret.raised = ""
    /\ last_phone_check_time = now
    /\ last_face_check_time < now
    /\ last_phone_present

\* C17: in every reachable state, before the registration and after ERROR
\* frames too, last_authorized is True only if last_faces holds exactly one
\* face and a reference embedding is stored; no process_frame call on an
\* unregistered session sets last_authorized to True.
C17_AuthorizedImpliesOneFace ==
    /\ (last_authorized => Len(last_faces) = 1 /\ ref_embedding # NoEmbedding)
    /\ (ret.op = "process_frame" /\ ref_embedding = NoEmbedding => ~last_authorized)

\* a face refresh confirmed the person and the phone model then raised
C17_Witness ==
    /\ ret.op = "process_frame"
    /\ ret.face_invoked /\ ret.raised = "phone_model"
    /\ last_authorized

\* C18: in the list one process_frame call returns, LOOKING_AWAY never appears
\* with FACE_NOT_FOUND, MULTIPLE_FACES or UNAUTHORIZED_PERSON, and it is
\* returned only on frames where exactly one face is cached and authorized, so
\* its score is never below 40.
C18_LookingAwayOnlyAuthorized ==
    ret.op = "process_frame" /\ "LOOKING_AWAY" \in Kinds(ret.events) =>
        /\ Kinds(ret.events) \cap FaceEventKinds = {}
        /\ Len(last_faces) = 1
        /\ last_authorized
        /\ \A i \in DOMAIN ret.events :
              ret.events[i].event = "LOOKING_AWAY" => ret.events[i].score >= 40

\* LOOKING_AWAY with a phone in view: the score is 45
C18_Witness ==
    /\ ret.op = "process_frame"
    /\ last_phone_present
    /\ \E i \in DOMAIN ret.events :
          ret.events[i].event = "LOOKING_AWAY" /\ ret.events[i].score < 50

\* C19: every register_user_from_frame call that returns success = False
\* (already registered, undecodable frame, no face, several faces, face-model
\* exception) leaves every field of the session unchanged.
C19_FailedRegistrationNoEffect ==
    [][RegisterCall /\ ~ret'.success => UNCHANGED session_vars]_vars

\* a registration was rejected for showing several faces
C19_Witness ==
    /\ ret.op = "register"
    /\ ~ret.success
    /\ Len(ret.faces) > 1
    /\ ref_embedding = NoEmbedding

\* the kinds of the events of a list, in order
KindSeq(events) == [i \in DOMAIN events |-> events[i].event]

\* the lists of kinds without ERROR: at most one face event, then at most one
\* PHONE_DETECTED, then at most one LOOKING_AWAY
AlertShapes ==
    {a \o b \o c : a \in {<< >>} \cup {<<k>> : k \in FaceEventKinds},
                   b \in {<< >>, <<"PHONE_DETECTED">>},
                   c \in {<< >>, <<"LOOKING_AWAY">>}}

\* C20: every process_frame call returns a list that is either exactly one
\* ERROR event or a possibly empty list of at most one of FACE_NOT_FOUND,
\* MULTIPLE_FACES, UNAUTHORIZED_PERSON, then at most one PHONE_DETECTED, then
\* at most one LOOKING_AWAY, in that order; ERROR never comes with another event.
C20_ReturnShape ==
    ret.op = "process_frame" =>
        \/ KindSeq(ret.events) = <<"ERROR">>
        \/ KindSeq(ret.events) \in AlertShapes

\* a face event followed by PHONE_DETECTED
C20_Witness ==
    /\ ret.op = "process_frame"
    /\ Len(ret.events) = 2
    /\ ret.events[1].event \in FaceEventKinds
    /\ ret.events[2].event = "PHONE_DETECTED"

=============================================================================
